---- MODULE Spec2Model ----
(***************************************************************************)
(* Accordionary: the item state machine (init-item.ts) and the component   *)
(* orchestrator (init-accordion.ts) of one accordion component.            *)
(*                                                                         *)
(* The document holds one component root with NumItems item elements.  Its *)
(* attributes are the configuration; initAccordion parses them, wires one  *)
(* state machine per item and returns the controller.  After that the host *)
(* event loop delivers clicks, key presses and transitionend events, and   *)
(* the caller may use the controller.  Every handler runs to completion.   *)
(***************************************************************************)
EXTENDS Integers, Sequences, FiniteSets, TLC

VARIABLES
    dom,      \* the component root's attributes and its item elements' attributes
    marked,   \* the data-accordionary-initialized attribute of the root
    config,   \* the AccordionConfig captured by the item closures (<<>> before init)
    items,    \* the wired Item records, in sibling order (<<>> before init)
    given,    \* what generateAccordionary was called with (<<>>: a hand-written document)
    prefersReducedMotion,  \* window.matchMedia("(prefers-reduced-motion: reduce)").matches
    itemIdCounter,  \* the module-level counter of init-item.ts
    ids,      \* the ids and ARIA references initItem gave each wired item
    page      \* the components of a document that holds several (<<>>: one component)

vars == <<dom, marked, config, items, given, prefersReducedMotion,
          itemIdCounter, ids, page>>

\* Number of item elements under the component root.
NumItems == 2

\* An attribute that is not set (getAttribute returns null) / one that is set.
Absent == <<>>
Attr(s) == <<s>>

\* ItemConfig.openOverride: null, or a boolean.
NoOverride == <<>>
Override(b) == <<b>>

\* What `${contentElement.scrollHeight}px` measures: the panels have content
\* of one fixed, non-zero height.
ScrollHeightPx == {"40px"}

\* Keys a keydown event can carry.
Keys == {"Enter", " ", "Tab"}

Idx == 1..NumItems

\* Attribute values the component root and the items are written with.
OpenAttrs == {Absent, Attr("all"), Attr("first")}
MultipleAttrs == {Absent, Attr("false")}
LinkAttrs == {Absent, Attr("true")}
ItemOpenAttrs == {Absent, Attr("true"), Attr("false")}
ItemDisableAttrs == {Absent, Attr("true")}

\* An item element with its header, content and icon elements and no
\* attribute of its own.
PlainItem ==
    [open |-> Absent, disable |-> Absent,
     header |-> TRUE, content |-> TRUE, icon |-> TRUE]

-----------------------------------------------------------------------------
(* JavaScript values.  The accordionary-speed attribute is read as a string *)
(* of characters; a number is NaN or an integer.                            *)

NaN == <<>>
Num(n) == <<n>>

\* A string attribute value that JavaScript takes as true: set and not empty.
Truthy(attr) == attr # Absent /\ attr # Attr("")

\* The same for an attribute given as a sequence of characters.
TruthyChars(attr) == attr # Absent /\ attr # Attr(<<>>)

DigitChars == <<"0", "1", "2", "3", "4", "5", "6", "7", "8", "9">>
IsDigit(c) == \E k \in DOMAIN DigitChars : DigitChars[k] = c
DigitValue(c) == (CHOOSE k \in DOMAIN DigitChars : DigitChars[k] = c) - 1

RECURSIVE TrimLeft(_)
TrimLeft(str) ==
    IF str # <<>> /\ Head(str) = " " THEN TrimLeft(Tail(str)) ELSE str

\* The longest prefix of digits, read in base 10; NaN if there is none.
RECURSIVE ReadDigits(_, _, _)
ReadDigits(str, acc, seen) ==
    IF str # <<>> /\ IsDigit(Head(str))
    THEN ReadDigits(Tail(str), acc * 10 + DigitValue(Head(str)), TRUE)
    ELSE IF seen THEN Num(acc) ELSE NaN

Negate(num) == IF num = NaN THEN NaN ELSE Num(0 - num[1])

\* parseInt(str, 10): leading blanks are skipped, a sign is read, then the
\* digits up to the first character that is none.
parseInt(str) ==
    LET t == TrimLeft(str) IN
    IF t # <<>> /\ Head(t) = "-" THEN Negate(ReadDigits(Tail(t), 0, FALSE))
    ELSE IF t # <<>> /\ Head(t) = "+" THEN ReadDigits(Tail(t), 0, FALSE)
    ELSE ReadDigits(t, 0, FALSE)

-----------------------------------------------------------------------------
(* initAccordion: configuration parsing *)

\* The default animation speed in milliseconds.
DefaultSpeed == 300

\* parsedSpeed: the attribute read by parseInt, or the default when it is
\* not set or empty.
ParsedSpeed(root) ==
    IF TruthyChars(root.speed) THEN parseInt(root.speed[1]) ELSE Num(DefaultSpeed)

SpeedInvalid(root) ==
    ParsedSpeed(root) = NaN \/ ParsedSpeed(root)[1] < 0

\* The AccordionConfig built from the root's attributes.
ParseConfig(root) ==
    [ openDefault   |-> IF root.open = Attr("all") THEN "all"
                        ELSE IF root.open = Attr("first") THEN "first"
                        ELSE "none",
      allowMultiple |-> root.multiple # Attr("false"),
      speed         |-> IF SpeedInvalid(root) THEN DefaultSpeed
                        ELSE ParsedSpeed(root)[1],
      easing        |-> IF Truthy(root.easing) THEN root.easing[1] ELSE "ease",
      reduceMotion  |-> prefersReducedMotion,
      linked        |-> root.link = Attr("true") ]

\* A reported message: which attribute, on which item (0: the root).
Report(what, k) == [what |-> what, item |-> k]

\* The warnings of the validation of the root's attributes.
ConfigWarnings(root) ==
    (IF Truthy(root.open) /\ root.open[1] \notin {"all", "first", "none"}
     THEN {Report("open", 0)} ELSE {})
    \cup (IF Truthy(root.multiple) /\ root.multiple[1] \notin {"true", "false"}
          THEN {Report("multiple", 0)} ELSE {})
    \cup (IF Truthy(root.link) /\ root.link[1] \notin {"true", "false"}
          THEN {Report("link", 0)} ELSE {})
    \cup (IF TruthyChars(root.speed) /\ SpeedInvalid(root)
          THEN {Report("speed", 0)} ELSE {})

\* The warning of the validation of an item element's attributes.
ItemWarnings(el, k) ==
    IF Truthy(el.open) /\ el.open[1] \notin {"true", "false"}
    THEN {Report("item-open", k)} ELSE {}

\* The ItemConfig built from an item element's attributes.
ParseItemConfig(el) ==
    [ openOverride |-> IF el.open = Attr("true") THEN Override(TRUE)
                       ELSE IF el.open = Attr("false") THEN Override(FALSE)
                       ELSE NoOverride,
      disabled     |-> el.disable = Attr("true") ]

-----------------------------------------------------------------------------
(* initItem: construction of one item *)

\* A construction that lets the component default win over the item override.
ShouldOpenInitiallyDefaultFirst(cfg, icfg, isFirst) ==
    IF cfg.openDefault = "all" THEN TRUE
    ELSE IF cfg.openDefault = "first" /\ isFirst THEN TRUE
    ELSE IF icfg.openOverride # NoOverride THEN icfg.openOverride[1]
    ELSE FALSE

\* Initial open state: item override, else component default.
ShouldOpenInitially(cfg, icfg, isFirst) ==
    IF icfg.openOverride # NoOverride
    THEN icfg.openOverride[1]
    ELSE IF cfg.openDefault = "all" THEN TRUE
    ELSE IF cfg.openDefault = "first" /\ isFirst THEN TRUE
    ELSE FALSE

\* An initItem that leaves the icon of an initially open item unrotated.
InitItemUnrotated(cfg, icfg, isFirst) ==
    LET isOpen == ShouldOpenInitially(cfg, icfg, isFirst) IN
    [ config         |-> icfg,
      isOpen         |-> isOpen,
      overflow       |-> "hidden",
      height         |-> IF isOpen THEN "auto" ELSE "0px",
      inert          |-> ~isOpen,
      iconVisibility |-> IF icfg.disabled THEN "hidden" ELSE "",
      transform      |-> "",
      tabindex       |-> IF icfg.disabled THEN "-1" ELSE "0",
      role           |-> "button",
      ariaExpanded   |-> IF isOpen THEN "true" ELSE "false",
      cursor         |-> IF icfg.disabled THEN "default" ELSE "pointer",
      ariaDisabled   |-> IF icfg.disabled THEN Attr("true") ELSE Absent,
      panelRole      |-> "region" ]

\* An initItem that leaves every heading in the tab order.
InitItemAllFocusable(cfg, icfg, isFirst) ==
    LET isOpen == ShouldOpenInitially(cfg, icfg, isFirst) IN
    [ config         |-> icfg,
      isOpen         |-> isOpen,
      overflow       |-> "hidden",
      height         |-> IF isOpen THEN "auto" ELSE "0px",
      inert          |-> ~isOpen,
      iconVisibility |-> IF icfg.disabled THEN "hidden" ELSE "",
      transform      |-> IF ~icfg.disabled /\ isOpen THEN "rotate(180deg)" ELSE "",
      tabindex       |-> "0",
      role           |-> "button",
      ariaExpanded   |-> IF isOpen THEN "true" ELSE "false",
      cursor         |-> IF icfg.disabled THEN "default" ELSE "pointer",
      ariaDisabled   |-> IF icfg.disabled THEN Attr("true") ELSE Absent,
      panelRole      |-> "region" ]

\* The item as initItem leaves it: state, styles and accessibility attributes.
InitItem(cfg, icfg, isFirst) ==
    LET isOpen == ShouldOpenInitially(cfg, icfg, isFirst) IN
    [ config         |-> icfg,
      isOpen         |-> isOpen,
      overflow       |-> "hidden",
      height         |-> IF isOpen THEN "auto" ELSE "0px",
      inert          |-> ~isOpen,
      iconVisibility |-> IF icfg.disabled THEN "hidden" ELSE "",
      transform      |-> IF ~icfg.disabled /\ isOpen THEN "rotate(180deg)" ELSE "",
      tabindex       |-> IF icfg.disabled THEN "-1" ELSE "0",
      role           |-> "button",
      ariaExpanded   |-> IF isOpen THEN "true" ELSE "false",
      cursor         |-> IF icfg.disabled THEN "default" ELSE "pointer",
      ariaDisabled   |-> IF icfg.disabled THEN Attr("true") ELSE Absent,
      panelRole      |-> "region" ]

-----------------------------------------------------------------------------
(* The item operations.  h is the panel's scrollHeight when it is measured. *)

\* An open() that leaves the panel inert.
openKeepsInert(it, h) ==
    IF it.isOpen THEN it
    ELSE [it EXCEPT !.isOpen = TRUE,
                    !.height = h,
                    !.transform = "rotate(180deg)",
                    !.ariaExpanded = "true"]

\* An open() without the early return on an item that is already open.
openUnguarded(it, h) ==
    [it EXCEPT !.isOpen = TRUE,
               !.inert = FALSE,
               !.height = h,
               !.transform = "rotate(180deg)",
               !.ariaExpanded = "true"]

open(it, h) ==
    IF it.isOpen THEN it
    ELSE [it EXCEPT !.isOpen = TRUE,
                    !.inert = FALSE,
                    !.height = h,
                    !.transform = "rotate(180deg)",
                    !.ariaExpanded = "true"]

\* A close() that pins the height to the measured value and leaves it there.
closeLeavesMeasured(it, h) ==
    IF ~it.isOpen THEN it
    ELSE [it EXCEPT !.isOpen = FALSE,
                    !.inert = TRUE,
                    !.height = h,
                    !.transform = "rotate(0deg)",
                    !.ariaExpanded = "false"]

\* A close() that leaves aria-expanded as it was.
closeKeepsExpanded(it, h) ==
    IF ~it.isOpen THEN it
    ELSE [it EXCEPT !.isOpen = FALSE,
                    !.inert = TRUE,
                    !.height = "0px",
                    !.transform = "rotate(0deg)"]

\* The height is pinned to the measured value, then set to 0px.
close(it, h) ==
    IF ~it.isOpen THEN it
    ELSE [it EXCEPT !.isOpen = FALSE,
                    !.inert = TRUE,
                    !.height = "0px",
                    !.transform = "rotate(0deg)",
                    !.ariaExpanded = "false"]

\* A toggle whose single-open branch opens the item without closing the others.
toggleKeepsSiblings(its, cfg, i, sh) ==
    IF its[i].config.disabled THEN its
    ELSE IF cfg.linked
    THEN IF its[i].isOpen
         THEN [j \in DOMAIN its |->
                 IF ~its[j].config.disabled THEN close(its[j], sh[j]) ELSE its[j]]
         ELSE [j \in DOMAIN its |->
                 IF ~its[j].config.disabled THEN open(its[j], sh[j]) ELSE its[j]]
    ELSE IF its[i].isOpen
    THEN [its EXCEPT ![i] = close(its[i], sh[i])]
    ELSE [its EXCEPT ![i] = open(its[i], sh[i])]

\* A toggle without the early return on a disabled item.
toggleIgnoresDisabled(its, cfg, i, sh) ==
    IF cfg.linked
    THEN IF its[i].isOpen
         THEN [j \in DOMAIN its |->
                 IF ~its[j].config.disabled THEN close(its[j], sh[j]) ELSE its[j]]
         ELSE [j \in DOMAIN its |->
                 IF ~its[j].config.disabled THEN open(its[j], sh[j]) ELSE its[j]]
    ELSE IF its[i].isOpen
    THEN [its EXCEPT ![i] = close(its[i], sh[i])]
    ELSE IF ~cfg.allowMultiple
    THEN [j \in DOMAIN its |->
            IF j # i THEN close(its[j], sh[j]) ELSE open(its[j], sh[j])]
    ELSE [its EXCEPT ![i] = open(its[i], sh[i])]

\* A toggle whose linked branch drives the disabled items too.
toggleLinksDisabled(its, cfg, i, sh) ==
    IF its[i].config.disabled THEN its
    ELSE IF cfg.linked
    THEN IF its[i].isOpen
         THEN [j \in DOMAIN its |-> close(its[j], sh[j])]
         ELSE [j \in DOMAIN its |-> open(its[j], sh[j])]
    ELSE IF its[i].isOpen
    THEN [its EXCEPT ![i] = close(its[i], sh[i])]
    ELSE IF ~cfg.allowMultiple
    THEN [j \in DOMAIN its |->
            IF j # i THEN close(its[j], sh[j]) ELSE open(its[j], sh[j])]
    ELSE [its EXCEPT ![i] = open(its[i], sh[i])]

\* A toggle that closes the other items whenever it opens one.
toggleAlwaysExclusive(its, cfg, i, sh) ==
    IF its[i].config.disabled THEN its
    ELSE IF cfg.linked
    THEN IF its[i].isOpen
         THEN [j \in DOMAIN its |->
                 IF ~its[j].config.disabled THEN close(its[j], sh[j]) ELSE its[j]]
         ELSE [j \in DOMAIN its |->
                 IF ~its[j].config.disabled THEN open(its[j], sh[j]) ELSE its[j]]
    ELSE IF its[i].isOpen
    THEN [its EXCEPT ![i] = close(its[i], sh[i])]
    ELSE [j \in DOMAIN its |->
            IF j # i THEN close(its[j], sh[j]) ELSE open(its[j], sh[j])]

\* A toggle that tests allowMultiple before linked.
toggleSingleOpenFirst(its, cfg, i, sh) ==
    IF its[i].config.disabled THEN its
    ELSE IF ~cfg.allowMultiple
    THEN IF its[i].isOpen
         THEN [its EXCEPT ![i] = close(its[i], sh[i])]
         ELSE [j \in DOMAIN its |->
                 IF j # i THEN close(its[j], sh[j]) ELSE open(its[j], sh[j])]
    ELSE IF cfg.linked
    THEN IF its[i].isOpen
         THEN [j \in DOMAIN its |->
                 IF ~its[j].config.disabled THEN close(its[j], sh[j]) ELSE its[j]]
         ELSE [j \in DOMAIN its |->
                 IF ~its[j].config.disabled THEN open(its[j], sh[j]) ELSE its[j]]
    ELSE IF its[i].isOpen
    THEN [its EXCEPT ![i] = close(its[i], sh[i])]
    ELSE [its EXCEPT ![i] = open(its[i], sh[i])]

\* A toggle that never closes the item it is called on.
toggleOpensOnly(its, cfg, i, sh) ==
    IF its[i].config.disabled THEN its
    ELSE IF cfg.linked
    THEN [j \in DOMAIN its |->
            IF ~its[j].config.disabled THEN open(its[j], sh[j]) ELSE its[j]]
    ELSE IF its[i].isOpen
    THEN its
    ELSE IF ~cfg.allowMultiple
    THEN [j \in DOMAIN its |->
            IF j # i THEN close(its[j], sh[j]) ELSE open(its[j], sh[j])]
    ELSE [its EXCEPT ![i] = open(its[i], sh[i])]

\* toggle() of item i; sh[j] is what item j's panel measures if it is opened
\* or closed by the call.
toggle(its, cfg, i, sh) ==
    IF its[i].config.disabled THEN its
    ELSE IF cfg.linked
    THEN IF its[i].isOpen
         THEN [j \in DOMAIN its |->
                 IF ~its[j].config.disabled THEN close(its[j], sh[j]) ELSE its[j]]
         ELSE [j \in DOMAIN its |->
                 IF ~its[j].config.disabled THEN open(its[j], sh[j]) ELSE its[j]]
    ELSE IF its[i].isOpen
    THEN [its EXCEPT ![i] = close(its[i], sh[i])]
    ELSE IF ~cfg.allowMultiple
    THEN [j \in DOMAIN its |->
            IF j # i THEN close(its[j], sh[j]) ELSE open(its[j], sh[j])]
    ELSE [its EXCEPT ![i] = open(its[i], sh[i])]

\* A keydown listener that answers Enter alone.
keydownEnterOnly(its, cfg, i, key, sh) ==
    IF key = "Enter"
    THEN [items |-> toggle(its, cfg, i, sh), defaultPrevented |-> TRUE]
    ELSE [items |-> its, defaultPrevented |-> FALSE]

\* The keydown listener of the heading of item i: the items it leaves, and
\* whether it called event.preventDefault().
keydown(its, cfg, i, key, sh) ==
    IF key = "Enter" \/ key = " "
    THEN [items |-> toggle(its, cfg, i, sh), defaultPrevented |-> TRUE]
    ELSE [items |-> its, defaultPrevented |-> FALSE]

\* A transitionend listener that does not look at the item's state.
transitionendUnguarded(it) == [it EXCEPT !.height = "auto"]

\* The transitionend listener of one panel.
transitionend(it) ==
    IF it.isOpen THEN [it EXCEPT !.height = "auto"] ELSE it

\* An id assignment that numbers the items of each call from 0.
IdsOfFromZero(counter, calls) ==
    [k \in 1..calls |->
       LET itemId    == <<"accordionary", k - 1>>
           headerId  == Append(itemId, "header")
           contentId == Append(itemId, "content")
       IN  [ headerId       |-> headerId,
             contentId      |-> contentId,
             ariaControls   |-> contentId,
             ariaLabelledby |-> headerId ]]

\* The ids and ARIA references of the items of `calls` successive initItem
\* calls, the first of which reads the counter at `counter`:
\* accordionary-<n>-header and accordionary-<n>-content, n = itemIdCounter++.
IdsOf(counter, calls) ==
    [k \in 1..calls |->
       LET itemId    == <<"accordionary", counter + k - 1>>
           headerId  == Append(itemId, "header")
           contentId == Append(itemId, "content")
       IN  [ headerId       |-> headerId,
             contentId      |-> contentId,
             ariaControls   |-> contentId,
             ariaLabelledby |-> headerId ]]

-----------------------------------------------------------------------------
(* State *)

Wired == items # <<>>
Cfg == config[1]
Measures == [Idx -> ScrollHeightPx]

\* The document before initialization: a root with NumItems item elements,
\* each with its header, content and icon element.
Init ==
    /\ dom \in [ open     : OpenAttrs,
                 multiple : MultipleAttrs,
                 link     : LinkAttrs,
                 speed    : {Absent},
                 easing   : {Absent},
                 items    : [Idx -> [ open    : ItemOpenAttrs,
                                      disable : ItemDisableAttrs,
                                      header  : {TRUE},
                                      content : {TRUE},
                                      icon    : {TRUE} ]] ]
    /\ marked = FALSE
    /\ config = <<>>
    /\ items = <<>>
    /\ given = <<>>
    /\ prefersReducedMotion = FALSE
    /\ itemIdCounter = 0
    /\ ids = <<>>
    /\ page = <<>>

-----------------------------------------------------------------------------
(* initAccordion and the entry points *)

\* A select() that returns null when there is no matching element.
selectOrNull(present) == IF present THEN "element" ELSE "null"

\* select(selector, parent): the first matching element; an Error is thrown
\* when there is none.
select(present) == IF present THEN "element" ELSE "throws"

\* The three lookups of one item element, then the checks of their results:
\* "throws" when a lookup throws, "skip" when a check finds null (an error is
\* reported and the loop continues), "ok" otherwise.
Lookup(el) ==
    LET headingElement == select(el.header)
        contentElement == select(el.content)
        iconElement    == select(el.icon)
        found          == {headingElement, contentElement, iconElement}
    IN  IF "throws" \in found THEN "throws"
        ELSE IF "null" \in found THEN "skip"
        ELSE "ok"

\* The item elements the loop reaches: all of them, or those up to the first
\* one whose lookup throws.
Reached(els) ==
    {k \in DOMAIN els : \A j \in 1..(k - 1) : Lookup(els[j]) # "throws"}

IsOk(el) == Lookup(el) = "ok"

\* An initAccordion() without the check of the initialized marker.
initAccordionUnguarded(d, m, c, its) ==
    LET cfg   == ParseConfig(d)
        valid == SelectSeq(d.items, IsOk)
    IN  [ returns  |-> "controller",
          marked   |-> TRUE,
          config   |-> <<cfg>>,
          items    |-> [k \in DOMAIN valid |->
                          InitItem(cfg, ParseItemConfig(valid[k]), k = 1)],
          warnings |-> {},
          errors   |-> {},
          initItemCalls |-> Len(valid) ]

\* An initAccordion that sets the marker only once the items are found.
initAccordionMarksLate(d, m, c, its) ==
    IF m
    THEN [ returns |-> "null", marked |-> m, config |-> c, items |-> its,
           warnings |-> {}, errors |-> {}, initItemCalls |-> 0 ]
    ELSE IF Len(d.items) = 0
    THEN [ returns |-> "null", marked |-> FALSE, config |-> c, items |-> its,
           warnings |-> ConfigWarnings(d) \cup {Report("no-items", 0)},
           errors |-> {}, initItemCalls |-> 0 ]
    ELSE initAccordionUnguarded(d, m, c, its)

\* initAccordion(component) on the document d whose root has the marker m:
\* what it returns (or that it throws), the marker, the configuration and the
\* items it leaves, what it reports, and how many times it calls initItem
\* (each call registers one click, one keydown and one transitionend listener).
initAccordion(d, m, c, its) ==
    IF m
    THEN [ returns |-> "null", marked |-> m, config |-> c, items |-> its,
           warnings |-> {}, errors |-> {}, initItemCalls |-> 0 ]
    ELSE
    LET cfg    == ParseConfig(d)
        els    == d.items
        valid  == SelectSeq(els, IsOk)
        warned == ConfigWarnings(d) \cup
                  UNION {ItemWarnings(els[k], k) :
                           k \in {j \in Reached(els) : Lookup(els[j]) = "ok"}}
        missed == {Report("missing", k) :
                     k \in {j \in Reached(els) : Lookup(els[j]) = "skip"}}
    IN  IF Len(els) = 0
        THEN [ returns |-> "null", marked |-> TRUE, config |-> c, items |-> its,
               warnings |-> ConfigWarnings(d) \cup {Report("no-items", 0)},
               errors |-> {}, initItemCalls |-> 0 ]
        ELSE IF \E k \in DOMAIN els : Lookup(els[k]) = "throws"
        THEN [ returns |-> "throws", marked |-> TRUE, config |-> c, items |-> its,
               warnings |-> warned, errors |-> missed, initItemCalls |-> 0 ]
        ELSE [ returns  |-> "controller",
               marked   |-> TRUE,
               config   |-> <<cfg>>,
               items    |-> [k \in DOMAIN valid |->
                               InitItem(cfg, ParseItemConfig(valid[k]), k = 1)],
               warnings |-> warned,
               errors   |-> missed,
               initItemCalls |-> Len(valid) ]

\* What init() can be given: the root element, a selector that matches it,
\* no element, a selector that matches nothing.
Targets == {"element", "selector", "null", "no-match"}
Resolves(target) == target \in {"element", "selector"}

\* An init() without the check of what the target resolved to.
initUnchecked(target, d, m, c, its) ==
    IF Resolves(target)
    THEN initAccordion(d, m, c, its)
    ELSE [ returns |-> "throws", marked |-> m, config |-> c, items |-> its,
           warnings |-> {}, errors |-> {}, initItemCalls |-> 0 ]

\* init(element): initAccordion of what the target resolves to, or null and
\* a reported error.
init(target, d, m, c, its) ==
    IF Resolves(target)
    THEN initAccordion(d, m, c, its)
    ELSE [ returns |-> "null", marked |-> m, config |-> c, items |-> its,
           warnings |-> {}, errors |-> {Report("not-found", 0)},
           initItemCalls |-> 0 ]

\* initAccordion(component), as main() calls it for the component.
InitAccordion ==
    LET result == initAccordion(dom, marked, config, items) IN
    /\ marked' = result.marked
    /\ config' = result.config
    /\ items' = result.items
    /\ ids' = ids \o IdsOf(itemIdCounter, result.initItemCalls)
    /\ itemIdCounter' = itemIdCounter + result.initItemCalls
    /\ UNCHANGED <<dom, given, prefersReducedMotion, page>>

\* init(target)
InitCall(target) ==
    LET result == init(target, dom, marked, config, items) IN
    /\ marked' = result.marked
    /\ config' = result.config
    /\ items' = result.items
    /\ ids' = ids \o IdsOf(itemIdCounter, result.initItemCalls)
    /\ itemIdCounter' = itemIdCounter + result.initItemCalls
    /\ UNCHANGED <<dom, given, prefersReducedMotion, page>>

\* initAll(): initAccordion of every component of the document.
InitAll ==
    LET result == initAccordion(dom, marked, config, items) IN
    /\ marked' = result.marked
    /\ config' = result.config
    /\ items' = result.items
    /\ ids' = ids \o IdsOf(itemIdCounter, result.initItemCalls)
    /\ itemIdCounter' = itemIdCounter + result.initItemCalls
    /\ UNCHANGED <<dom, given, prefersReducedMotion, page>>

\* A click on the heading of item i.
Click(i) ==
    /\ Wired
    /\ \E sh \in Measures : items' = toggle(items, Cfg, i, sh)
    /\ UNCHANGED <<dom, marked, config, given, prefersReducedMotion,
                 itemIdCounter, ids, page>>

\* A keydown on the heading of item i.
KeyDown(i, key) ==
    /\ Wired
    /\ \E sh \in Measures : items' = keydown(items, Cfg, i, key, sh).items
    /\ UNCHANGED <<dom, marked, config, given, prefersReducedMotion,
                 itemIdCounter, ids, page>>

\* The item controllers: controller.items[i].open() / close() / toggle().
ItemControllerOpen(i) ==
    /\ Wired
    /\ \E h \in ScrollHeightPx : items' = [items EXCEPT ![i] = open(items[i], h)]
    /\ UNCHANGED <<dom, marked, config, given, prefersReducedMotion,
                 itemIdCounter, ids, page>>

ItemControllerClose(i) ==
    /\ Wired
    /\ \E h \in ScrollHeightPx : items' = [items EXCEPT ![i] = close(items[i], h)]
    /\ UNCHANGED <<dom, marked, config, given, prefersReducedMotion,
                 itemIdCounter, ids, page>>

ItemControllerToggle(i) ==
    /\ Wired
    /\ \E sh \in Measures : items' = toggle(items, Cfg, i, sh)
    /\ UNCHANGED <<dom, marked, config, given, prefersReducedMotion,
                 itemIdCounter, ids, page>>

\* The transitionend event of item i's panel is delivered.
TransitionEnd(i) ==
    /\ Wired
    /\ items' = [items EXCEPT ![i] = transitionend(items[i])]
    /\ UNCHANGED <<dom, marked, config, given, prefersReducedMotion,
                 itemIdCounter, ids, page>>

\* items[index] of the controller: JavaScript indexes from 0, and an index
\* outside the array yields undefined, which the optional call skips.
InRange(index) == 0 <= index /\ index < Len(items)

\* A controller.open(index) that takes the nearest item for an index outside
\* the array.
controllerOpenClamped(its, index, h) ==
    LET i == IF index < 0 THEN 1
             ELSE IF index >= Len(its) THEN Len(its)
             ELSE index + 1
    IN  [its EXCEPT ![i] = open(its[i], h)]

\* items[index]?.open?.()
controllerOpen(its, index, h) ==
    IF 0 <= index /\ index < Len(its)
    THEN [its EXCEPT ![index + 1] = open(its[index + 1], h)]
    ELSE its

\* items[index]?.close?.()
controllerClose(its, index, h) ==
    IF 0 <= index /\ index < Len(its)
    THEN [its EXCEPT ![index + 1] = close(its[index + 1], h)]
    ELSE its

\* items[index]?.toggle?.()
controllerToggle(its, cfg, index, sh) ==
    IF 0 <= index /\ index < Len(its)
    THEN toggle(its, cfg, index + 1, sh)
    ELSE its

\* controller.open(index)
ControllerOpen(index) ==
    /\ Wired
    /\ \E h \in ScrollHeightPx : items' = controllerOpen(items, index, h)
    /\ UNCHANGED <<dom, marked, config, given, prefersReducedMotion,
                 itemIdCounter, ids, page>>

\* controller.close(index)
ControllerClose(index) ==
    /\ Wired
    /\ \E h \in ScrollHeightPx : items' = controllerClose(items, index, h)
    /\ UNCHANGED <<dom, marked, config, given, prefersReducedMotion,
                 itemIdCounter, ids, page>>

\* controller.toggle(index)
ControllerToggle(index) ==
    /\ Wired
    /\ \E sh \in Measures : items' = controllerToggle(items, Cfg, index, sh)
    /\ UNCHANGED <<dom, marked, config, given, prefersReducedMotion,
                 itemIdCounter, ids, page>>

\* controller.openAll(): open() of every item, the disabled ones included.
openAll(its, sh) == [j \in DOMAIN its |-> open(its[j], sh[j])]

\* A closeAll() that leaves the disabled items alone.
closeAllSkipsDisabled(its, sh) ==
    [j \in DOMAIN its |->
       IF its[j].config.disabled THEN its[j] ELSE close(its[j], sh[j])]

\* controller.closeAll(): close() of every item, the disabled ones included.
closeAll(its, sh) == [j \in DOMAIN its |-> close(its[j], sh[j])]

OpenAll ==
    /\ Wired
    /\ \E sh \in Measures : items' = openAll(items, sh)
    /\ UNCHANGED <<dom, marked, config, given, prefersReducedMotion,
                 itemIdCounter, ids, page>>

CloseAll ==
    /\ Wired
    /\ \E sh \in Measures : items' = closeAll(items, sh)
    /\ UNCHANGED <<dom, marked, config, given, prefersReducedMotion,
                 itemIdCounter, ids, page>>

\* Indexes a caller may pass to the controller: one below and one above the range.
ControllerIndexes == (0 - 1)..NumItems

Next ==
    \/ InitAccordion
    \/ \E target \in Targets : InitCall(target)
    \/ InitAll
    \/ \E i \in Idx : Click(i)
    \/ \E i \in Idx, key \in Keys : KeyDown(i, key)
    \/ \E i \in Idx : ItemControllerOpen(i)
    \/ \E i \in Idx : ItemControllerClose(i)
    \/ \E i \in Idx : ItemControllerToggle(i)
    \/ \E index \in ControllerIndexes : ControllerOpen(index)
    \/ \E index \in ControllerIndexes : ControllerClose(index)
    \/ \E index \in ControllerIndexes : ControllerToggle(index)
    \/ OpenAll
    \/ CloseAll
    \/ \E i \in Idx : TransitionEnd(i)

Spec == Init /\ [][Next]_vars

-----------------------------------------------------------------------------
(* Initialization of documents with invalid attributes or missing elements *)

\* Values of the accordionary-speed attribute, as characters.
SpeedAttrs ==
    { Absent, Attr(<<>>), Attr(<<"0">>), Attr(<<"2", "5", "0">>),
      Attr(<<"a", "b", "c">>), Attr(<<"-", "5">>), Attr(<<"1", "2", "p", "x">>) }

\* A root with any attribute values over NumItems complete items.
AttributeDocs ==
    [ open     : OpenAttrs \cup {Attr("none"), Attr(""), Attr("sometimes")},
      multiple : MultipleAttrs \cup {Attr("true"), Attr(""), Attr("yes")},
      link     : LinkAttrs \cup {Attr("false"), Attr(""), Attr("yes")},
      speed    : SpeedAttrs,
      easing   : {Absent},
      items    : [Idx -> [ open    : ItemOpenAttrs \cup {Attr(""), Attr("yes")},
                           disable : {Absent},
                           header  : {TRUE},
                           content : {TRUE},
                           icon    : {TRUE} ]] ]

\* A root without attributes over up to NumItems items, each with or without
\* its header, content and icon element.
StructureDocs ==
    [ open     : {Absent},
      multiple : {Absent},
      link     : {Absent},
      speed    : {Absent},
      easing   : {Absent},
      items    : UNION { [1..n -> [ open    : {Absent},
                                    disable : ItemDisableAttrs,
                                    header  : BOOLEAN,
                                    content : BOOLEAN,
                                    icon    : BOOLEAN ]] : n \in 0..NumItems } ]

InitDocs ==
    /\ dom \in AttributeDocs \cup StructureDocs
    /\ marked = FALSE
    /\ config = <<>>
    /\ items = <<>>
    /\ given = <<>>
    /\ prefersReducedMotion = FALSE
    /\ itemIdCounter = 0
    /\ ids = <<>>
    /\ page = <<>>

NextInit ==
    \/ InitAccordion
    \/ \E target \in Targets : InitCall(target)
    \/ InitAll

SpecInit == InitDocs /\ [][NextInit]_vars

-----------------------------------------------------------------------------
(* Vocabulary of the properties *)

\* The steps that run toggle() of item i.
Toggles(i) ==
    \/ Click(i)
    \/ KeyDown(i, "Enter")
    \/ KeyDown(i, " ")
    \/ ItemControllerToggle(i)
    \/ ControllerToggle(i - 1)

\* The steps a user's click or activation key on the heading of item i makes.
UserInput(i) == Click(i) \/ KeyDown(i, "Enter") \/ KeyDown(i, " ")

SingleOpenMode == Wired /\ ~Cfg.allowMultiple /\ ~Cfg.linked
LinkedMode == Wired /\ Cfg.linked
OpenItems == {i \in DOMAIN items : items[i].isOpen}
AtMostOneOpen == Cardinality(OpenItems) <= 1

\* No item element carries an attribute of its own.
PlainItems == \A i \in Idx : dom.items[i] = PlainItem

-----------------------------------------------------------------------------
(* C1 *)

-----------------------------------------------------------------------------
(* C2 *)

ExclusiveStep ==
    \/ \E i \in Idx : Toggles(i)
    \/ \E i \in Idx : ItemControllerClose(i)
    \/ \E index \in ControllerIndexes : ControllerClose(index)
    \/ CloseAll
    \/ \E i \in Idx : TransitionEnd(i)

-----------------------------------------------------------------------------
(* C3 *)

\* C3: in linked mode, toggle() on a non-disabled item i gives every
\* non-disabled item the opposite of item i's state before the call, whatever
\* the siblings' states were, and leaves every disabled item as it was.
C3_LinkedToggleSyncs ==
    [][\A i \in Idx :
         (LinkedMode /\ ~items[i].config.disabled /\ Toggles(i))
         => \A j \in Idx :
              IF items[j].config.disabled
              THEN items'[j] = items[j]
              ELSE items'[j].isOpen = ~items[i].isOpen]_vars

\* Linked, an enabled item that started closed is open and its disabled
\* sibling is still as constructed (closed, never touched).
C3_Witness ==
    /\ LinkedMode
    /\ Cfg.openDefault = "none"
    /\ ~items[1].config.disabled /\ items[1].config.openOverride = NoOverride
    /\ items[1].isOpen /\ items[1].height \in ScrollHeightPx
    /\ items[2].config.disabled /\ items[2].config.openOverride = NoOverride
    /\ ~items[2].isOpen /\ items[2].transform = ""

-----------------------------------------------------------------------------
(* C4 *)

\* The initial-state resolution policy, read off the configuration.
PolicyOpen(cfg, icfg, i) ==
    IF icfg.openOverride = Override(TRUE) THEN TRUE
    ELSE IF icfg.openOverride = Override(FALSE) THEN FALSE
    ELSE cfg.openDefault = "all" \/ (cfg.openDefault = "first" /\ i = 1)

-----------------------------------------------------------------------------
(* C5 *)

\* C5: a disabled item's isOpen is never changed by user interaction: in
\* every mode, a click or Enter/Space on any heading of the component leaves
\* every disabled item's isOpen as it was.
C5_DisabledUntouchedByUserInput ==
    [][\A i \in Idx :
         UserInput(i)
         => \A j \in Idx :
              items[j].config.disabled => items'[j].isOpen = items[j].isOpen]_vars

-----------------------------------------------------------------------------
(* C6 *)

\* C6: a disabled item in a component with openDefault=all is always open:
\* nothing makes its isOpen false.  (Stated for the items that carry no open
\* override of their own, which start open.)
C6_DisabledAlwaysOpen ==
    Wired =>
      \A i \in Idx :
        ( /\ Cfg.openDefault = "all"
          /\ items[i].config.disabled
          /\ items[i].config.openOverride = NoOverride )
        => items[i].isOpen

-----------------------------------------------------------------------------
(* C7 *)

\* C7: a click or Enter/Space on the heading of a disabled item changes
\* nothing in the component, in every mode: isOpen, aria-expanded, height and
\* inert of every item stay as they were.
C7_DisabledHeadingIsNoOp ==
    [][\A i \in Idx :
         (Wired /\ items[i].config.disabled /\ UserInput(i))
         => /\ \A j \in Idx :
                 /\ items'[j].isOpen = items[j].isOpen
                 /\ items'[j].ariaExpanded = items[j].ariaExpanded
                 /\ items'[j].height = items[j].height
                 /\ items'[j].inert = items[j].inert
            /\ UNCHANGED vars]_vars

\* A linked component whose disabled first item is closed while its enabled
\* sibling is open: input on the disabled heading finds work it must not do.
C7_Witness ==
    /\ LinkedMode
    /\ items[1].config.disabled /\ ~items[1].isOpen
    /\ ~items[2].config.disabled /\ items[2].isOpen
    /\ items[2].height \in ScrollHeightPx

-----------------------------------------------------------------------------
(* C8 *)

\* What open() and close() change of an item.
Dynamic(it) == <<it.isOpen, it.inert, it.height, it.transform, it.ariaExpanded>>

\* The same item without its disabled flag.
AsEnabled(it) == [it EXCEPT !.config.disabled = FALSE]

-----------------------------------------------------------------------------
(* C9 *)

\* The icon's orientation in degrees: no transform is no rotation.
Orientation(transform) == IF transform = "rotate(180deg)" THEN 180 ELSE 0

SameFlagAndState(a, b) ==
    a.isOpen = b.isOpen /\ a.ariaExpanded = b.ariaExpanded

SameIcon(a, b) == Orientation(a.transform) = Orientation(b.transform)

\* A second consecutive open() or close() changes nothing.
Idempotent ==
    \A i \in Idx :
      /\ (ItemControllerOpen(i) /\ items[i].isOpen) => UNCHANGED vars
      /\ (ItemControllerClose(i) /\ ~items[i].isOpen) => UNCHANGED vars
      /\ ItemControllerOpen(i)
           => \A h \in ScrollHeightPx : open(items'[i], h) = items'[i]
      /\ ItemControllerClose(i)
           => \A h \in ScrollHeightPx : close(items'[i], h) = items'[i]

UnrotatedOpen(it) == it.config.disabled /\ it.isOpen /\ it.transform = ""

-----------------------------------------------------------------------------
(* C10 *)

\* C10: in every reachable state the heading's aria-expanded is "true"
\* exactly when the item's isOpen is true.
C10_ExpandedMatchesState ==
    Wired => \A i \in Idx : (items[i].ariaExpanded = "true") <=> items[i].isOpen

\* Single-open: the first item, which started closed, is open and settled,
\* and the second, open at construction, was closed by the cascade.
C10_Witness ==
    /\ SingleOpenMode
    /\ items[1].config.openOverride = NoOverride /\ Cfg.openDefault = "none"
    /\ items[1].isOpen /\ items[1].ariaExpanded = "true" /\ items[1].height = "auto"
    /\ items[1].transform = "rotate(180deg)"
    /\ items[2].config.openOverride = Override(TRUE)
    /\ ~items[2].isOpen /\ items[2].ariaExpanded = "false"

-----------------------------------------------------------------------------
(* C11 *)

\* C11: the static accessibility attributes hold in every reachable state:
\* every heading has role button and every panel role region; a non-disabled
\* heading has tabindex 0, a pointer cursor and no aria-disabled; a disabled
\* heading has tabindex -1, aria-disabled true, the default cursor and a
\* hidden icon.
C11_StaticAccessibility ==
    Wired =>
      \A i \in Idx :
        /\ items[i].role = "button"
        /\ items[i].panelRole = "region"
        /\ IF items[i].config.disabled
           THEN /\ items[i].tabindex = "-1"
                /\ items[i].ariaDisabled = Attr("true")
                /\ items[i].cursor = "default"
                /\ items[i].iconVisibility = "hidden"
           ELSE /\ items[i].tabindex = "0"
                /\ items[i].ariaDisabled = Absent
                /\ items[i].cursor = "pointer"

\* A disabled item that was open at construction and has been closed since,
\* beside an enabled one that has been opened: both still carry their
\* attributes.
C11_Witness ==
    /\ Wired
    /\ items[1].config.disabled /\ items[1].tabindex = "-1"
    /\ ~items[1].isOpen /\ items[1].transform = "rotate(0deg)"
    /\ ~items[2].config.disabled /\ items[2].tabindex = "0"
    /\ items[2].config.openOverride = Override(FALSE)
    /\ items[2].isOpen

-----------------------------------------------------------------------------
(* C12 *)

\* C12: a keydown of Enter or Space on a heading leaves exactly the state a
\* click on that heading leaves and suppresses the key's default action; a
\* keydown of any other key changes no item state.
C12_ActivationKeysActAsClick ==
    Wired =>
      \A i \in Idx, key \in Keys, sh \in Measures :
        LET pressed == keydown(items, Cfg, i, key, sh)
            clicked == toggle(items, Cfg, i, sh)
        IN  IF key \in {"Enter", " "}
            THEN pressed.items = clicked /\ pressed.defaultPrevented
            ELSE pressed.items = items

\* Multi-open, nothing open at construction: both items have been opened one
\* by one, as a press of Space on each heading does.
C12_Witness ==
    /\ Wired /\ Cfg.allowMultiple /\ ~Cfg.linked
    /\ Cfg.openDefault = "none"
    /\ PlainItems
    /\ \A i \in Idx : items[i].isOpen /\ items[i].height \in ScrollHeightPx

\* What a call of an entry point leaves of the component.
Left(result) == <<result.marked, result.config, result.items>>
Now == <<marked, config, items>>

\* C13: on a root that carries the initialized marker, initAccordion (as the
\* entry point and initAll call it) and init return null, leave the marker,
\* the configuration and every item's state and attributes as they are, and
\* call initItem for no item, so no heading gets a second click listener.
C13_InitIsIdempotent ==
    marked =>
      /\ LET result == initAccordion(dom, marked, config, items)
         IN  /\ result.returns = "null"
             /\ Left(result) = Now
             /\ result.initItemCalls = 0
      /\ \A target \in {t \in Targets : Resolves(t)} :
           LET result == init(target, dom, marked, config, items)
           IN  /\ result.returns = "null"
               /\ Left(result) = Now
               /\ result.initItemCalls = 0

\* An initialized component whose items have left their initial state, which
\* a second construction would reset.
C13_Witness ==
    /\ marked /\ Wired
    /\ Cfg.openDefault = "none" /\ PlainItems
    /\ \E i \in Idx : items[i].isOpen

\* An item element that has its header, content and icon.
Complete(el) == el.header /\ el.content /\ el.icon
Incomplete == {k \in DOMAIN dom.items : ~Complete(dom.items[k])}

C16_UnresolvedInitIsNull ==
    \A target \in {t \in Targets : ~Resolves(t)} :
      LET result == init(target, dom, marked, config, items)
      IN  /\ result.returns = "null"
          /\ result.errors # {}
          /\ Left(result) = Now
          /\ result.initItemCalls = 0

\* A document with complete items whose root is still unmarked, where an
\* init() that went on to initAccordion would mark the root and wire items.
C16_Witness ==
    /\ ~marked /\ ~Wired
    /\ Len(dom.items) = NumItems
    /\ Incomplete = {}

\* C17: controller.open(index), close(index) and toggle(index) act on item
\* number index (counted from 0) when 0 <= index < number of items, and leave
\* every item as it is for a negative index and for an index at or beyond the
\* number of items.
C17_IndexIsBoundsChecked ==
    Wired =>
      \A index \in ControllerIndexes, h \in ScrollHeightPx, sh \in Measures :
        LET opened  == controllerOpen(items, index, h)
            closed  == controllerClose(items, index, h)
            toggled == controllerToggle(items, Cfg, index, sh)
        IN  IF InRange(index)
            THEN /\ opened = [items EXCEPT ![index + 1] = open(items[index + 1], h)]
                 /\ closed = [items EXCEPT ![index + 1] = close(items[index + 1], h)]
                 /\ toggled = toggle(items, Cfg, index + 1, sh)
            ELSE /\ opened = items
                 /\ closed = items
                 /\ toggled = items

\* Closed items that an open() reaching them would change.
C17_Witness ==
    /\ Wired /\ Len(items) = NumItems
    /\ \A i \in Idx : ~items[i].isOpen /\ items[i].transform = "rotate(0deg)"

\* A string that writes a non-negative integer: decimal digits and nothing
\* else; and the integer it writes.
IsNumeral(str) == str # <<>> /\ \A k \in DOMAIN str : IsDigit(str[k])
RECURSIVE NumeralValue(_)
NumeralValue(str) ==
    IF str = <<>> THEN 0
    ELSE NumeralValue(SubSeq(str, 1, Len(str) - 1)) * 10
         + DigitValue(str[Len(str)])

\* C18: the configuration initAccordion builds has a non-negative integer
\* speed: 300 and no warning when accordionary-speed is absent, the written
\* integer and no warning when the value writes a non-negative integer, and
\* 300 with a warning for every other value.
C18_SpeedIsValidated ==
    ~marked =>
      LET result == initAccordion(dom, marked, config, items)
          warned == Report("speed", 0) \in result.warnings
      IN  result.returns = "controller" =>
            LET speed == result.config[1].speed
            IN  /\ speed \in Nat
                /\ IF dom.speed = Absent
                   THEN speed = DefaultSpeed /\ ~warned
                   ELSE IF IsNumeral(dom.speed[1])
                   THEN speed = NumeralValue(dom.speed[1]) /\ ~warned
                   ELSE speed = DefaultSpeed /\ warned

\* An attribute that is set to a value outside its documented values.
Invalid(attr, documented) == attr # Absent /\ attr[1] \notin documented

\* C19: the configuration initAccordion builds takes accordionary-open,
\* accordionary-multiple, accordionary-link and each item's accordionary-open
\* when they have a documented value and the default (none, true, false, no
\* override) otherwise, and a warning is reported for exactly the attributes
\* that are set to a value outside the documented ones.
C19_InvalidValuesAreReported ==
    ~marked =>
      LET result == initAccordion(dom, marked, config, items)
      IN  result.returns = "controller" =>
            LET cfg == result.config[1]
            IN  /\ cfg.openDefault =
                     IF Invalid(dom.open, {"all", "first", "none"})
                        \/ dom.open = Absent
                     THEN "none" ELSE dom.open[1]
                /\ cfg.allowMultiple = (dom.multiple # Attr("false"))
                /\ cfg.linked = (dom.link = Attr("true"))
                /\ \A k \in DOMAIN dom.items :
                     result.items[k].config.openOverride =
                       IF dom.items[k].open = Attr("true") THEN Override(TRUE)
                       ELSE IF dom.items[k].open = Attr("false")
                       THEN Override(FALSE)
                       ELSE NoOverride
                /\ Invalid(dom.open, {"all", "first", "none"})
                     <=> Report("open", 0) \in result.warnings
                /\ Invalid(dom.multiple, {"true", "false"})
                     <=> Report("multiple", 0) \in result.warnings
                /\ Invalid(dom.link, {"true", "false"})
                     <=> Report("link", 0) \in result.warnings
                /\ \A k \in DOMAIN dom.items :
                     Invalid(dom.items[k].open, {"true", "false"})
                       <=> Report("item-open", k) \in result.warnings

\* C20: for every wired item, the transitionend listener leaves the height
\* "auto" exactly when the item is open at that moment, leaves the height of
\* a closed panel at "0px", changes no other field (isOpen, aria-expanded,
\* inert, icon), and a second delivery changes nothing more.
C20_TransitionEndSetsAutoOnlyWhenOpen ==
    Wired =>
      \A i \in DOMAIN items :
        LET it    == items[i]
            after == transitionend(it)
        IN  /\ after.height = "auto" <=> it.isOpen
            /\ ~it.isOpen => after.height = "0px"
            /\ after = [it EXCEPT !.height = after.height]
            /\ transitionend(after) = after

\* One item closed again after it was opened, whose late event finds it
\* closed, beside an item opened and settled at "auto" by its event.
C20_Witness ==
    /\ Wired /\ Cfg.openDefault = "none" /\ PlainItems
    /\ \E i, j \in Idx :
         /\ ~items[i].isOpen /\ items[i].transform = "rotate(0deg)"
         /\ items[j].isOpen /\ items[j].height = "auto"

\* C21: in a linked component, toggle() leaves the same items whatever
\* allowMultiple is; on a closed enabled item it opens every enabled item and
\* closes none, also when allowMultiple is false.
C21_LinkedWinsOverSingleOpen ==
    (Wired /\ Cfg.linked) =>
      \A i \in Idx, sh \in Measures :
        LET after == toggle(items, Cfg, i, sh)
            other == toggle(items, [Cfg EXCEPT !.allowMultiple = ~@], i, sh)
        IN  /\ after = other
            /\ (~items[i].isOpen /\ ~items[i].config.disabled) =>
                  \A j \in Idx :
                    /\ ~items[j].config.disabled => after[j].isOpen
                    /\ items[j].isOpen => after[j].isOpen

\* A linked single-open component with more than one item opened by a toggle.
C21_Witness ==
    /\ Wired /\ Cfg.linked /\ ~Cfg.allowMultiple
    /\ Cfg.openDefault = "none" /\ PlainItems
    /\ \A i \in Idx : items[i].isOpen /\ items[i].height \in ScrollHeightPx
    /\ Cardinality(OpenItems) > 1

\* The toggles of a non-linked component that run no cascade: of an open
\* item, and of a closed item when several items may be open.
Uncascaded(i) == ~Cfg.linked /\ (items[i].isOpen \/ Cfg.allowMultiple)

\* C22 as stated: in a non-linked component, toggle() of an open item, and of
\* a closed item when allowMultiple is true, flips that item's isOpen and
\* leaves every sibling as it is.
C22_ToggleFlipsOnlyThatItem ==
    Wired =>
      \A i \in Idx, sh \in Measures :
        Uncascaded(i) =>
          LET after == toggle(items, Cfg, i, sh)
          IN  /\ after[i].isOpen = ~items[i].isOpen
              /\ \A j \in Idx \ {i} : after[j] = items[j]

\* C22, amended: the same toggles leave every sibling as it is; they flip the
\* item's isOpen when the item is not disabled and change nothing at all when
\* it is disabled.
C22_ToggleTouchesOnlyThatItem ==
    Wired =>
      \A i \in Idx, sh \in Measures :
        Uncascaded(i) =>
          LET after == toggle(items, Cfg, i, sh)
          IN  /\ \A j \in Idx \ {i} : after[j] = items[j]
              /\ IF items[i].config.disabled
                 THEN after[i] = items[i]
                 ELSE after[i].isOpen = ~items[i].isOpen

\* A multi-open component where an item was opened beside an open, settled
\* sibling.
C22_Witness ==
    /\ Wired /\ ~Cfg.linked /\ Cfg.allowMultiple
    /\ Cfg.openDefault = "none" /\ PlainItems
    /\ \E i, j \in Idx :
         /\ items[i].isOpen /\ items[i].height \in ScrollHeightPx
         /\ items[j].isOpen /\ items[j].height = "auto"

-----------------------------------------------------------------------------
(* generateAccordionary: the generator of a component's elements *)

\* The default indicator markup.
DefaultIcon == "▼"

\* A destructured option with its default: the default when it is undefined.
OrElse(option, default) == IF option = Absent THEN default ELSE option[1]

\* Number.prototype.toString() of a non-negative integer, as characters.
RECURSIVE toString(_)
toString(n) ==
    IF n < 10 THEN <<DigitChars[n + 1]>>
    ELSE Append(toString(n \div 10), DigitChars[(n % 10) + 1])

\* Boolean.prototype.toString()
booleanToString(b) == IF b THEN "true" ELSE "false"

\* Whether querySelector finds an element of the role among the children
\* and their children.
Finds(children, role) ==
    \E k \in DOMAIN children :
      \/ children[k].accordionary = role
      \/ \E c \in DOMAIN children[k].children :
           children[k].children[c].accordionary = role

\* A generateItem that appends the icon to the item, after the content.
generateItemIconLast(itemData, icon) ==
    LET iconElement    == [accordionary |-> "icon", html |-> icon,
                           children |-> <<>>]
        header         == [accordionary |-> "header", html |-> itemData.heading,
                           children |-> <<>>]
        contentElement == [accordionary |-> "content", html |-> itemData.content,
                           children |-> <<>>]
        children       == <<header, contentElement, iconElement>>
    IN  [ accordionary |-> "item",
          open     |-> IF itemData.config.openOverride # Absent
                       THEN Attr(booleanToString(itemData.config.openOverride[1]))
                       ELSE Absent,
          disable  |-> IF OrElse(itemData.config.disabled, FALSE)
                       THEN Attr("true") ELSE Absent,
          children |-> children,
          header   |-> Finds(children, "header"),
          content  |-> Finds(children, "content"),
          icon     |-> Finds(children, "icon") ]

\* generateItem(itemData, icon, classes): the item element with its
\* attributes and its header (holding the icon) and content children.
generateItem(itemData, icon) ==
    LET iconElement    == [accordionary |-> "icon", html |-> icon,
                           children |-> <<>>]
        header         == [accordionary |-> "header", html |-> itemData.heading,
                           children |-> <<iconElement>>]
        contentElement == [accordionary |-> "content", html |-> itemData.content,
                           children |-> <<>>]
        children       == <<header, contentElement>>
    IN  [ accordionary |-> "item",
          open     |-> IF itemData.config.openOverride # Absent
                       THEN Attr(booleanToString(itemData.config.openOverride[1]))
                       ELSE Absent,
          disable  |-> IF OrElse(itemData.config.disabled, FALSE)
                       THEN Attr("true") ELSE Absent,
          children |-> children,
          header   |-> Finds(children, "header"),
          content  |-> Finds(children, "content"),
          icon     |-> Finds(children, "icon") ]

\* A generateAccordionary that writes accordionary-multiple="false" when
\* several items may be open.
generateAccordionaryInverted(data, options) ==
    LET icon          == OrElse(options.icon, DefaultIcon)
        openDefault   == OrElse(options.openDefault, "none")
        allowMultiple == OrElse(options.allowMultiple, TRUE)
        speed         == OrElse(options.speed, DefaultSpeed)
        easing        == OrElse(options.easing, "ease")
    IN  [ accordionary |-> "component",
          open     |-> IF openDefault # "none" THEN Attr(openDefault) ELSE Absent,
          multiple |-> IF allowMultiple THEN Attr("false") ELSE Absent,
          speed    |-> IF speed # DefaultSpeed THEN Attr(toString(speed)) ELSE Absent,
          easing   |-> IF easing # "ease" THEN Attr(easing) ELSE Absent,
          link     |-> Absent,
          items    |-> [k \in DOMAIN data |-> generateItem(data[k], icon)] ]

\* generateAccordionary(data, config): the component element, its
\* attributes and its item children.  No accordionary-link is ever written.
generateAccordionary(data, options) ==
    LET icon          == OrElse(options.icon, DefaultIcon)
        openDefault   == OrElse(options.openDefault, "none")
        allowMultiple == OrElse(options.allowMultiple, TRUE)
        speed         == OrElse(options.speed, DefaultSpeed)
        easing        == OrElse(options.easing, "ease")
    IN  [ accordionary |-> "component",
          open     |-> IF openDefault # "none" THEN Attr(openDefault) ELSE Absent,
          multiple |-> IF ~allowMultiple THEN Attr("false") ELSE Absent,
          speed    |-> IF speed # DefaultSpeed THEN Attr(toString(speed)) ELSE Absent,
          easing   |-> IF easing # "ease" THEN Attr(easing) ELSE Absent,
          link     |-> Absent,
          items    |-> [k \in DOMAIN data |-> generateItem(data[k], icon)] ]

\* The generator options, each one given or left out.
GeneratorOptions ==
    [ icon          : {Absent, <<"+">>},
      openDefault   : {Absent, <<"all">>, <<"first">>, <<"none">>},
      allowMultiple : {Absent, <<TRUE>>, <<FALSE>>},
      speed         : {Absent, <<0>>, <<250>>, <<DefaultSpeed>>},
      easing        : {Absent, <<"ease">>, <<"linear">>},
      linked        : {Absent, <<TRUE>>, <<FALSE>>} ]

DefaultOptions ==
    [ icon |-> Absent, openDefault |-> Absent, allowMultiple |-> Absent,
      speed |-> Absent, easing |-> Absent, linked |-> Absent ]

\* Item descriptions: the k-th has its own heading and content.
ItemConfigs ==
    [ openOverride : {Absent, <<TRUE>>, <<FALSE>>},
      disabled     : {Absent, <<TRUE>>, <<FALSE>>} ]
Description(k, icfg) ==
    [heading |-> <<"Question", k>>, content |-> <<"Answer", k>>, config |-> icfg]
NoItemConfig == [openOverride |-> Absent, disabled |-> Absent]

\* What the generator is called with: any options over NumItems plain
\* descriptions, or the default options over up to NumItems descriptions
\* with any item configuration.
GeneratorInputs ==
    { [data |-> [k \in Idx |-> Description(k, NoItemConfig)], options |-> o] :
        o \in GeneratorOptions }
    \cup
    UNION { { [data |-> [k \in 1..n |-> Description(k, c[k])],
              options |-> DefaultOptions] : c \in [1..n -> ItemConfigs] } :
            n \in 0..NumItems }

Generated == dom # <<>>

InitGen ==
    /\ dom = <<>>
    /\ marked = FALSE
    /\ config = <<>>
    /\ items = <<>>
    /\ given \in GeneratorInputs
    /\ prefersReducedMotion = FALSE
    /\ itemIdCounter = 0
    /\ ids = <<>>
    /\ page = <<>>

\* const element = generateAccordionary(data, config)
Generate ==
    /\ ~Generated
    /\ dom' = generateAccordionary(given.data, given.options)
    /\ UNCHANGED <<marked, config, items, given, prefersReducedMotion,
                   itemIdCounter, ids, page>>

\* Accordionary.init(element) on the generated element.
InitGenerated ==
    /\ Generated
    /\ LET result == init("element", dom, marked, config, items) IN
       /\ marked' = result.marked
       /\ config' = result.config
       /\ items' = result.items
       /\ ids' = ids \o IdsOf(itemIdCounter, result.initItemCalls)
       /\ itemIdCounter' = itemIdCounter + result.initItemCalls
    /\ UNCHANGED <<dom, given, prefersReducedMotion, page>>

NextGen == Generate \/ InitGenerated

SpecGen == InitGen /\ [][NextGen]_vars

\* The positions, below an item element, of the elements of a role: <<k>> is
\* child k, <<k, c>> is child c of child k.
Positions(el, role) ==
    {<<k>> : k \in {j \in DOMAIN el.children :
                      el.children[j].accordionary = role}}
    \cup UNION { {<<k, c>> : c \in {d \in DOMAIN el.children[k].children :
                                      el.children[k].children[d].accordionary = role}} :
                 k \in DOMAIN el.children }

\* The item element of one description under the default options: one
\* header holding the heading and the one icon, then one content.
WellFormedItem(el, itemData) ==
    /\ el.accordionary = "item"
    /\ Positions(el, "header") = {<<1>>}
    /\ Positions(el, "content") = {<<2>>}
    /\ Positions(el, "icon") = {<<1, 1>>}
    /\ Len(el.children) = 2
    /\ el.children[1].html = itemData.heading
    /\ el.children[2].html = itemData.content
    /\ el.children[1].children[1].html = DefaultIcon

\* C23: generateAccordionary with the default options returns a component
\* element with one item element per description, in the order of the
\* descriptions, each with one header that holds the heading and the one
\* icon with the default markup, and one content; the root is not marked
\* initialized.
C23_GeneratedStructure ==
    [][(Generate /\ given.options = DefaultOptions)
       => /\ dom'.accordionary = "component"
          /\ Len(dom'.items) = Len(given.data)
          /\ \A k \in DOMAIN given.data :
               WellFormedItem(dom'.items[k], given.data[k])
          /\ ~marked']_vars

\* A tree generated from NumItems descriptions with the default options.
C23_Witness ==
    /\ Generated /\ ~marked
    /\ given.options = DefaultOptions
    /\ Len(given.data) = NumItems
    /\ Len(dom.items) = NumItems

\* C24: the generated root carries accordionary-link="true" when the option
\* linked is true and no accordionary-link when it is false or left out, and
\* the component initialized from it is linked exactly when linked was asked.
C24_LinkedIsGenerated ==
    Generated =>
      LET asked == OrElse(given.options.linked, FALSE)
      IN  /\ dom.link = IF asked THEN Attr("true") ELSE Absent
          /\ Wired => Cfg.linked = asked

-----------------------------------------------------------------------------
(* The single-open cascade of toggle(), call by call *)

\* A cascade that opens the item first and closes the others afterwards.
cascadeOpensFirst(its, i, sh) ==
    LET opened == [its EXCEPT ![i] = open(its[i], sh[i])]
        others == SelectSeq([k \in DOMAIN its |-> k], LAMBDA k : k # i)
        closedUpTo(n) ==
            [j \in DOMAIN its |->
               IF \E m \in 1..n : others[m] = j
               THEN close(opened[j], sh[j]) ELSE opened[j]]
    IN  <<opened>> \o [n \in 1..Len(others) |-> closedUpTo(n)]

\* The items after each call of the cascade of a closed item i in
\* single-open mode: otherItem.close() for every other item in sibling
\* order, then open().
cascade(its, i, sh) ==
    LET others == SelectSeq([k \in DOMAIN its |-> k], LAMBDA k : k # i)
        closedUpTo(n) ==
            [j \in DOMAIN its |->
               IF \E m \in 1..n : others[m] = j
               THEN close(its[j], sh[j]) ELSE its[j]]
        closes == [n \in 1..Len(others) |-> closedUpTo(n)]
        last   == closedUpTo(Len(others))
    IN  Append(closes, [last EXCEPT ![i] = open(last[i], sh[i])])

OpenIn(its) == {j \in DOMAIN its : its[j].isOpen}

-----------------------------------------------------------------------------
(* The state of a panel and of an icon in every reachable state *)

\* C27: the content panel of every item is inert exactly when the item is
\* closed, and the transitionend listener leaves the inert marking as it is.
C27_InertIffClosed ==
    Wired =>
      \A i \in DOMAIN items :
        /\ items[i].inert = ~items[i].isOpen
        /\ transitionend(items[i]).inert = items[i].inert

\* An item that was opened (inert cleared) beside one that was closed again
\* (inert set), neither in its constructed state.
C27_Witness ==
    /\ Wired /\ Len(items) = NumItems
    /\ \E i, j \in Idx :
         /\ items[i].isOpen /\ ~items[i].inert
         /\ items[i].height \in ScrollHeightPx
         /\ ~items[j].isOpen /\ items[j].inert
         /\ items[j].transform = "rotate(0deg)"

\* C28: the panel of a closed item has height 0px, the panel of an open item
\* has height auto or a measured pixel height.
C28_HeightMatchesState ==
    Wired =>
      \A i \in DOMAIN items :
        IF items[i].isOpen
        THEN items[i].height \in {"auto"} \cup ScrollHeightPx
        ELSE items[i].height = "0px"

\* An item closed after its panel had settled at auto, beside an open item
\* at auto.
C28_Witness ==
    /\ Wired /\ Cfg.openDefault = "all" /\ PlainItems
    /\ \E i, j \in Idx :
         /\ ~items[i].isOpen /\ items[i].height = "0px"
         /\ items[j].isOpen /\ items[j].height = "auto"

\* C29: the icon of every enabled item is rotated by 180 degrees exactly when
\* the item is open, and is unrotated or at 0 degrees exactly when it is
\* closed.
C29_IconMatchesState ==
    Wired =>
      \A i \in DOMAIN items :
        ~items[i].config.disabled =>
          /\ items[i].transform = "rotate(180deg)" <=> items[i].isOpen
          /\ items[i].transform \in {"", "rotate(0deg)"} <=> ~items[i].isOpen

\* An enabled item open since construction beside an enabled item that was
\* opened and closed again.
C29_Witness ==
    /\ Wired /\ Cfg.openDefault = "first" /\ PlainItems
    /\ items[1].isOpen /\ items[1].height = "auto"
    /\ \E j \in Idx : ~items[j].isOpen /\ items[j].transform = "rotate(0deg)"

-----------------------------------------------------------------------------
(* The transition of the panel height and its transitionend event *)

\* The transition style initItem gives the content panel.
Transition(cfg) ==
    IF cfg.reduceMotion THEN <<"none">>
    ELSE <<"height", cfg.speed, "ms", cfg.easing>>

\* Whether a change of the panel height runs a CSS transition, at whose end
\* the browser dispatches transitionend: not with transition "none", and
\* not with a duration of 0ms.
Animates(cfg) == Transition(cfg) # <<"none">> /\ Transition(cfg)[2] > 0

\* The browser dispatches the transitionend event of item i's panel.
TransitionCompletes(i) ==
    /\ Wired
    /\ Animates(Cfg)
    /\ TransitionEnd(i)

\* Documents of plain items with any speed and any motion preference.
InitMotion ==
    /\ dom \in [ open     : OpenAttrs,
                 multiple : MultipleAttrs,
                 link     : LinkAttrs,
                 speed    : {Absent, Attr(<<"0">>)},
                 easing   : {Absent},
                 items    : [Idx -> {PlainItem}] ]
    /\ marked = FALSE
    /\ config = <<>>
    /\ items = <<>>
    /\ given = <<>>
    /\ prefersReducedMotion \in BOOLEAN
    /\ itemIdCounter = 0
    /\ ids = <<>>
    /\ page = <<>>

NextMotion ==
    \/ InitAccordion
    \/ \E i \in Idx : Click(i)
    \/ \E i \in Idx : ItemControllerOpen(i)
    \/ \E i \in Idx : ItemControllerClose(i)
    \/ \E i \in Idx : TransitionCompletes(i)

\* A transition that runs comes to its end, and its event is dispatched.
SpecMotion ==
    /\ InitMotion
    /\ [][NextMotion]_vars
    /\ \A i \in Idx : WF_vars(TransitionCompletes(i))

\* C30: an item that is open stays open only until it is closed or its panel
\* height is auto: an item opened and not closed again eventually has height
\* auto, whatever the speed and the motion preference.
C30_OpenPanelSettlesAtAuto ==
    \A i \in Idx :
      (Wired /\ items[i].isOpen)
        ~> (Wired /\ (~items[i].isOpen \/ items[i].height = "auto"))

-----------------------------------------------------------------------------
(* The simple initAccordion: no validation, no linked mode, no controller *)

\* A simple configuration that allows several open items only when
\* accordionary-multiple is "true".
ParseConfigSimpleOptIn(root) ==
    [ openDefault   |-> IF root.open = Attr("all") THEN "all"
                        ELSE IF root.open = Attr("first") THEN "first"
                        ELSE "none",
      allowMultiple |-> root.multiple = Attr("true"),
      speed         |-> ParsedSpeed(root),
      easing        |-> IF Truthy(root.easing) THEN root.easing[1] ELSE "ease",
      reduceMotion  |-> prefersReducedMotion ]

\* The AccordionConfig the simple variant builds: the speed is whatever
\* parseInt yields (NaN or a number), and there is no linked property.
ParseConfigSimple(root) ==
    [ openDefault   |-> IF root.open = Attr("all") THEN "all"
                        ELSE IF root.open = Attr("first") THEN "first"
                        ELSE "none",
      allowMultiple |-> root.multiple # Attr("false"),
      speed         |-> ParsedSpeed(root),
      easing        |-> IF Truthy(root.easing) THEN root.easing[1] ELSE "ease",
      reduceMotion  |-> prefersReducedMotion ]

\* The configuration as initItem's closures read it: accordionConfig.linked
\* is undefined, which toggle() takes as false; a speed is a number.
AsRead(simple) ==
    [ openDefault   |-> simple.openDefault,
      allowMultiple |-> simple.allowMultiple,
      speed         |-> simple.speed[1],
      easing        |-> simple.easing,
      reduceMotion  |-> simple.reduceMotion,
      linked        |-> FALSE ]

\* initAccordion(component) of the simple variant: it returns undefined,
\* checks nothing and reports nothing.
initAccordionSimple(d, m, c, its) ==
    IF m
    THEN [ returns |-> "undefined", marked |-> m, config |-> c, items |-> its ]
    ELSE
    LET simple == ParseConfigSimple(d)
        els    == d.items
    IN  IF \E k \in DOMAIN els : Lookup(els[k]) = "throws"
        THEN [ returns |-> "throws", marked |-> TRUE, config |-> c,
               items |-> its ]
        ELSE IF Len(els) = 0
        THEN [ returns |-> "undefined", marked |-> TRUE, config |-> c,
               items |-> its ]
        ELSE [ returns |-> "undefined",
               marked  |-> TRUE,
               config  |-> <<simple>>,
               items   |-> [k \in DOMAIN els |->
                              InitItem(AsRead(simple), ParseItemConfig(els[k]),
                                       k = 1)] ]

\* A component without accordionary-link, with documented attribute values
\* only, a speed that writes a non-negative integer, and at least one item,
\* every item with its header, content and icon.
SimpleAndValid ==
    /\ dom.link = Absent
    /\ ~Invalid(dom.open, {"all", "first", "none"})
    /\ ~Invalid(dom.multiple, {"true", "false"})
    /\ dom.speed = Absent \/ IsNumeral(dom.speed[1])
    /\ Len(dom.items) > 0
    /\ \A k \in DOMAIN dom.items :
         /\ Complete(dom.items[k])
         /\ ~Invalid(dom.items[k].open, {"true", "false"})
         /\ ~Invalid(dom.items[k].disable, {"true", "false"})

\* C31: on an unmarked component without accordionary-link, with valid
\* attribute values and complete items, the validated and the simple
\* initAccordion leave the same marker, the same configuration as the items
\* read it and the same item list, and every toggle, open, close, key press
\* and transitionend of any item then leaves the same items under both.
C31_VariantsAgree ==
    (~marked /\ SimpleAndValid) =>
      LET full   == initAccordion(dom, marked, config, items)
          simple == initAccordionSimple(dom, marked, config, items)
          cfg    == AsRead(simple.config[1])
      IN  /\ full.returns = "controller" /\ simple.returns = "undefined"
          /\ full.marked = simple.marked
          /\ full.config[1] = cfg
          /\ full.items = simple.items
          /\ Len(full.items) = Len(dom.items)
          /\ \A i \in DOMAIN full.items, key \in Keys,
                sh \in [DOMAIN full.items -> ScrollHeightPx] :
               /\ toggle(full.items, full.config[1], i, sh)
                    = toggle(simple.items, cfg, i, sh)
               /\ keydown(full.items, full.config[1], i, key, sh)
                    = keydown(simple.items, cfg, i, key, sh)

\* A valid component without accordionary-link and with a written speed,
\* initialized.
C31_Witness ==
    /\ Wired /\ SimpleAndValid
    /\ dom.speed = Attr(<<"2", "5", "0">>)
    /\ Cfg.speed = NumeralValue(dom.speed[1])
    /\ dom.multiple = Attr("false") /\ ~Cfg.allowMultiple

-----------------------------------------------------------------------------
(* A document with several components: the ids initItem gives *)

\* Number of component roots in the document.
NumComponents == 2

\* A root without attributes over up to NumItems plain items.
PlainDocs ==
    { [ open |-> Absent, multiple |-> Absent, link |-> Absent,
        speed |-> Absent, easing |-> Absent,
        items |-> [k \in 1..n |-> PlainItem] ] : n \in 0..NumItems }

\* A component of the page before its initialization.
Fresh(d) ==
    [dom |-> d, marked |-> FALSE, config |-> <<>>, items |-> <<>>, ids |-> <<>>]

InitPage ==
    /\ page \in [1..NumComponents -> {Fresh(d) : d \in PlainDocs}]
    /\ dom = <<>>
    /\ marked = FALSE
    /\ config = <<>>
    /\ items = <<>>
    /\ given = <<>>
    /\ prefersReducedMotion = FALSE
    /\ itemIdCounter = 0
    /\ ids = <<>>

\* initAccordion(component) on one component of the page, with the counter
\* its initItem calls start from: the component and the counter it leaves.
InitOf(comp, counter) ==
    LET result == initAccordion(comp.dom, comp.marked, comp.config, comp.items)
    IN  [ component |-> [ dom    |-> comp.dom,
                          marked |-> result.marked,
                          config |-> result.config,
                          items  |-> result.items,
                          ids    |-> comp.ids
                                     \o IdsOf(counter, result.initItemCalls) ],
          counter   |-> counter + result.initItemCalls ]

\* initAll(): initAccordion of the components from c on, in document order.
RECURSIVE InitAllFrom(_, _, _)
InitAllFrom(pg, c, counter) ==
    IF c > Len(pg) THEN [page |-> pg, counter |-> counter]
    ELSE LET one == InitOf(pg[c], counter)
         IN  InitAllFrom([pg EXCEPT ![c] = one.component], c + 1, one.counter)

\* Accordionary.init(component c)
InitComponent(c) ==
    /\ LET one == InitOf(page[c], itemIdCounter) IN
       /\ page' = [page EXCEPT ![c] = one.component]
       /\ itemIdCounter' = one.counter
    /\ UNCHANGED <<dom, marked, config, items, given, prefersReducedMotion, ids>>

\* Accordionary.initAll(), or the entry point's main()
InitAllPage ==
    /\ LET all == InitAllFrom(page, 1, itemIdCounter) IN
       /\ page' = all.page
       /\ itemIdCounter' = all.counter
    /\ UNCHANGED <<dom, marked, config, items, given, prefersReducedMotion, ids>>

\* A click on the heading of item i of component c.
ClickOn(c, i) ==
    /\ i \in DOMAIN page[c].items
    /\ \E sh \in [DOMAIN page[c].items -> ScrollHeightPx] :
         page' = [page EXCEPT ![c].items =
                    toggle(page[c].items, page[c].config[1], i, sh)]
    /\ UNCHANGED <<dom, marked, config, items, given, prefersReducedMotion,
                   itemIdCounter, ids>>

NextPage ==
    \/ \E c \in 1..NumComponents : InitComponent(c)
    \/ InitAllPage
    \/ \E c \in 1..NumComponents, i \in Idx : ClickOn(c, i)

SpecPage == InitPage /\ [][NextPage]_vars

\* C32: every wired item of every component has ids, no two wired items of
\* the page have the same header id or the same content id, and every
\* heading's aria-controls is its own panel's id and every panel's
\* aria-labelledby its own heading's id.
C32_IdsAreUnique ==
    /\ \A c \in DOMAIN page : Len(page[c].ids) = Len(page[c].items)
    /\ \A c \in DOMAIN page : \A k \in DOMAIN page[c].ids :
         /\ page[c].ids[k].ariaControls = page[c].ids[k].contentId
         /\ page[c].ids[k].ariaLabelledby = page[c].ids[k].headerId
         /\ \A c2 \in DOMAIN page : \A k2 \in DOMAIN page[c2].ids :
              <<c, k>> # <<c2, k2>> =>
                /\ page[c].ids[k].headerId # page[c2].ids[k2].headerId
                /\ page[c].ids[k].contentId # page[c2].ids[k2].contentId

\* Every component initialized, the last one first, and an item toggled
\* since.
C32_Witness ==
    /\ \A c \in DOMAIN page : Len(page[c].items) = NumItems
    /\ itemIdCounter = NumComponents * NumItems
    /\ page[NumComponents].ids[1].headerId = <<"accordionary", 0, "header">>
    /\ page[1].items[1].isOpen

-----------------------------------------------------------------------------
(* Items added to a component after an initialization *)

\* An item element, complete or not, is appended to the component root.
AppendItem ==
    /\ Len(dom.items) < NumItems
    /\ \E el \in [ open    : {Absent},
                    disable : ItemDisableAttrs,
                    header  : BOOLEAN,
                    content : BOOLEAN,
                    icon    : BOOLEAN ] :
         dom' = [dom EXCEPT !.items = Append(@, el)]
    /\ UNCHANGED <<marked, config, items, given, prefersReducedMotion,
                   itemIdCounter, ids, page>>

InitLate ==
    /\ dom \in StructureDocs
    /\ marked = FALSE
    /\ config = <<>>
    /\ items = <<>>
    /\ given = <<>>
    /\ prefersReducedMotion = FALSE
    /\ itemIdCounter = 0
    /\ ids = <<>>
    /\ page = <<>>

NextLate ==
    \/ InitAccordion
    \/ InitAll
    \/ AppendItem

SpecLate == InitLate /\ [][NextLate]_vars

\* C33: initAccordion of an unmarked root without item elements returns
\* null, wires nothing and leaves the root marked; and initAccordion of a
\* marked root on which nothing is wired returns null and wires nothing,
\* whatever item elements the root has by then.
C33_FailedInitStaysMarked ==
    /\ (~marked /\ Len(dom.items) = 0) =>
         LET result == initAccordion(dom, marked, config, items)
         IN  /\ result.returns = "null"
             /\ result.marked
             /\ result.items = <<>>
    /\ (marked /\ ~Wired) =>
         LET result == initAccordion(dom, marked, config, items)
         IN  /\ result.returns = "null"
             /\ result.items = <<>>
             /\ result.initItemCalls = 0

\* A marked root on which nothing is wired although it has, by now, only
\* complete item elements: they were appended after the failed attempt.
C33_Witness ==
    /\ marked /\ ~Wired
    /\ Len(dom.items) = NumItems
    /\ Incomplete = {}

-----------------------------------------------------------------------------
(* Two consecutive toggles *)

\* The items after toggle() is called twice in a row on item i.
ToggledTwice(i, sh, sh2) == toggle(toggle(items, Cfg, i, sh), Cfg, i, sh2)

\* C34: in every mode, two consecutive toggle() calls on a non-disabled item
\* leave that item's isOpen as it was before the first call; when the
\* configuration is neither linked nor single-open, they leave every other
\* item's isOpen as it was too.
C34_ToggleTwiceRestores ==
    Wired =>
      \A i \in DOMAIN items : \A sh \in Measures : \A sh2 \in Measures :
        ~items[i].config.disabled =>
          /\ ToggledTwice(i, sh, sh2)[i].isOpen = items[i].isOpen
          /\ (~Cfg.linked /\ Cfg.allowMultiple) =>
               \A j \in DOMAIN items :
                 ToggledTwice(i, sh, sh2)[j].isOpen = items[j].isOpen

\* Single-open mode, a closed enabled item beside an open one: toggling the
\* closed item twice restores it and leaves the other one closed.
C34_Witness ==
    /\ Wired
    /\ ~Cfg.linked /\ ~Cfg.allowMultiple
    /\ \E i \in DOMAIN items : \E j \in DOMAIN items : \E sh \in Measures :
         /\ i # j
         /\ ~items[i].config.disabled /\ ~items[i].isOpen
         /\ items[j].isOpen
         /\ ToggledTwice(i, sh, sh)[i].isOpen = items[i].isOpen
         /\ ~ToggledTwice(i, sh, sh)[j].isOpen

\* Linked mode, items in different states: the second toggle does not bring
\* the other item back.
C34_LinkedSiblingsNotRestored ==
    /\ Wired
    /\ Cfg.linked
    /\ \E i \in DOMAIN items : \E j \in DOMAIN items : \E sh \in Measures :
         /\ ~items[i].config.disabled
         /\ ToggledTwice(i, sh, sh)[i].isOpen = items[i].isOpen
         /\ ToggledTwice(i, sh, sh)[j].isOpen # items[j].isOpen

====
